---- MODULE Spec2Model ----
(***************************************************************************)
(* DroneStrike: the autopilot state machine (src/autopilot.py) and the     *)
(* threaded flight loop run_drone (src/main.py): the control loop, the     *)
(* detection worker, the camera/overlay producer, the HTTP takeoff         *)
(* handler and the shutdown sequence.                                      *)
(*                                                                         *)
(* Python floats are modelled as exact rationals [n, d] in lowest terms;   *)
(* the pixel coordinates, the speeds and the command axes are integers.    *)
(***************************************************************************)
EXTENDS Integers, Sequences, FiniteSets, TLC

\* ------------------------------------------------------------------ bounds
\* Highest number of takeoff() invocations that is counted.
MaxTakeoffs == 2

\* Highest number of consecutive ticks without a person box that is counted.
MaxMisses == 9

\* Longest list of boxes the detector returns when the scan is studied alone.
MaxBoxes == 3

\* ------------------------------------------------------- program constants
FrameWidth == 960
FrameHeight == 720
ChaseLookahead == 7
RcMin == -100
RcMax == 100
BackFactor == 5
RetreatFb == -45
RetreatUd == -15
DefaultSpeed == 100
WebSpeed == 50
WebLookahead == 10
WebFbFactor == 3

\* --------------------------------------------------------- float arithmetic
Abs(i) == IF i < 0 THEN -i ELSE i

RECURSIVE GCD(_, _)
GCD(a, b) == IF b = 0 THEN a ELSE GCD(b, a % b)

\* The rational n/d in lowest terms with a positive denominator.
Rat(n, d) ==
    LET s == IF d < 0 THEN -1 ELSE 1
        g == GCD(Abs(n), Abs(d))
    IN  [n |-> (s * n) \div g, d |-> (s * d) \div g]

FromInt(i) == [n |-> i, d |-> 1]
RAdd(a, b) == Rat(a.n * b.d + b.n * a.d, a.d * b.d)
RSub(a, b) == Rat(a.n * b.d - b.n * a.d, a.d * b.d)
RMul(a, b) == Rat(a.n * b.n, a.d * b.d)
RNeg(a) == [n |-> -a.n, d |-> a.d]
RLt(a, b) == a.n * b.d < b.n * a.d
RLe(a, b) == a.n * b.d <= b.n * a.d
\* Python's max(a, b) and min(a, b): the first argument wins a tie.
RMax(a, b) == IF RLt(a, b) THEN b ELSE a
RMin(a, b) == IF RLt(b, a) THEN b ELSE a
\* int(x): truncation toward zero.
Trunc(a) == IF a.n < 0 THEN -((-a.n) \div a.d) ELSE a.n \div a.d

Half == Rat(1, 2)
Zero == FromInt(0)

\* ------------------------------------------------------------------ values
\* None is the empty tuple; a person box is the tuple <<x1, y1, x2, y2>>.
None == << >>
StateNames == {"OFF", "SEARCH", "CHASE", "TRACK"}

\* ----------------------------------------------------------------- autopilot
\* Autopilot.__init__
NewAutopilot(sxy, sz, syaw) ==
    [speed_xy |-> sxy, speed_z |-> sz, speed_yaw |-> syaw,
     last_xmid |-> Half, last_ytop |-> Half, box_width |-> Zero,
     chase_counter |-> 0, mode |-> 0, state |-> "OFF"]

\* Autopilot.set_state
SetState(ctx, s) == [ctx EXCEPT !.state = s]

\* Mutant of DecayCounter: the decrement without its floor at 0.
DecayNoFloor(c) == c - 1

\* Mutant of DecayCounter: the counter is never decremented.
DecayStuck(c) == c

\* The counter after an update_detection call without a person box.
DecayCounter(c) == IF c - 1 > 0 THEN c - 1 ELSE 0

\* Mutant of OnPerson: a person box never starts the chase.
OnPersonStays(s) == s

\* Mutant of OnPerson: a person box starts the chase from every state.
OnPersonAny(s) == "CHASE"

\* The state after an update_detection call with a person box.
OnPerson(s) == IF s = "SEARCH" THEN "CHASE" ELSE s

\* Mutant of UpdateDetection: without a person box the last position is
\* forgotten as well.
UpdateDetectionForgets(ctx, person_box, fw, fh) ==
    IF person_box # None
    THEN [ctx EXCEPT
            !.last_xmid = Rat(person_box[1] + person_box[3], 2 * fw),
            !.last_ytop = RSub(FromInt(1), Rat(person_box[2], fh)),
            !.box_width = Rat(person_box[3] - person_box[1], fw),
            !.chase_counter = ChaseLookahead,
            !.state = OnPerson(ctx.state)]
    ELSE [ctx EXCEPT !.chase_counter = DecayCounter(ctx.chase_counter),
                     !.last_xmid = Half, !.last_ytop = Half, !.box_width = Zero]

\* Autopilot.update_detection
UpdateDetection(ctx, person_box, fw, fh) ==
    IF person_box # None
    THEN [ctx EXCEPT
            !.last_xmid = Rat(person_box[1] + person_box[3], 2 * fw),
            !.last_ytop = RSub(FromInt(1), Rat(person_box[2], fh)),
            !.box_width = Rat(person_box[3] - person_box[1], fw),
            !.chase_counter = ChaseLookahead,
            !.state = OnPerson(ctx.state)]
    ELSE [ctx EXCEPT !.chase_counter = DecayCounter(ctx.chase_counter)]

\* Each state's update returns the context it leaves and the deltas
\* <<yaw_auto, ud_auto, fb_auto>> it returns.
OffUpdate(ctx) ==
    [ctx |-> [ctx EXCEPT !.mode = 0], out |-> <<Zero, Zero, Zero>>]

SearchUpdate(ctx) ==
    [ctx |-> [ctx EXCEPT !.mode = 1],
     out |-> <<FromInt(ctx.speed_yaw), Zero, Zero>>]

\* Mutant of YawAuto: the yaw is steered to the 0.65 of the vertical formula.
YawAutoOffCentre(ctx) ==
    RMul(RSub(ctx.last_xmid, Rat(65, 100)), FromInt(2 * ctx.speed_yaw))

\* yaw_auto = (last_xmid - 0.5) * 2 * speed_yaw, in CHASE and in TRACK
YawAuto(ctx) == RMul(RSub(ctx.last_xmid, Half), FromInt(2 * ctx.speed_yaw))

\* Mutant of ChaseDeltas: the deltas of the formulas, whatever last_ytop.
ChaseDeltasNoRetreat(ctx) ==
    LET ud  == RMul(RSub(ctx.last_ytop, Rat(65, 100)), FromInt(2 * ctx.speed_z))
        fb0 == RMul(RSub(Half, RMul(Half, ctx.box_width)), FromInt(2 * ctx.speed_xy))
        fb1 == IF RLt(fb0, Zero) THEN RMul(fb0, FromInt(3)) ELSE fb0
    IN  <<YawAuto(ctx), ud, fb1>>

\* The CHASE deltas while the counter runs.
ChaseDeltas(ctx) ==
    LET ud  == RMul(RSub(ctx.last_ytop, Rat(65, 100)), FromInt(2 * ctx.speed_z))
        fb0 == RMul(RSub(Half, RMul(Half, ctx.box_width)), FromInt(2 * ctx.speed_xy))
        fb1 == IF RLt(fb0, Zero) THEN RMul(fb0, FromInt(3)) ELSE fb0
        top == RLt(ctx.last_ytop, Rat(2, 10))
    IN  <<YawAuto(ctx),
          IF top THEN FromInt(RetreatUd) ELSE ud,
          IF top THEN FromInt(RetreatFb) ELSE fb1>>

\* Mutant of ChaseUpdate: with the counter at 0 the tick searches, but the
\* state is left as it is.
ChaseUpdateKeepsState(ctx) ==
    IF ctx.chase_counter <= 0
    THEN SearchUpdate([ctx EXCEPT !.mode = 2])
    ELSE [ctx |-> [ctx EXCEPT !.mode = 2], out |-> ChaseDeltas(ctx)]

\* Mutant of ChaseUpdate: the counter test is strict, so a counter at 0
\* keeps chasing.
ChaseUpdateStrict(ctx) ==
    IF ctx.chase_counter < 0
    THEN SearchUpdate([ctx EXCEPT !.mode = 2, !.state = "SEARCH"])
    ELSE [ctx |-> [ctx EXCEPT !.mode = 2], out |-> ChaseDeltas(ctx)]

ChaseUpdate(ctx) ==
    IF ctx.chase_counter <= 0
    THEN SearchUpdate([ctx EXCEPT !.mode = 2, !.state = "SEARCH"])
    ELSE [ctx |-> [ctx EXCEPT !.mode = 2], out |-> ChaseDeltas(ctx)]

\* Mutant of TrackUpdate: TRACK approaches as CHASE does.
TrackUpdateAdvances(ctx) ==
    [ctx |-> [ctx EXCEPT !.mode = 3],
     out |-> <<YawAuto(ctx),
               RNeg(RMul(RSub(ctx.last_ytop, Half), FromInt(2 * ctx.speed_z))),
               ChaseDeltas(ctx)[3]>>]

TrackUpdate(ctx) ==
    [ctx |-> [ctx EXCEPT !.mode = 3],
     out |-> <<YawAuto(ctx),
               RNeg(RMul(RSub(ctx.last_ytop, Half), FromInt(2 * ctx.speed_z))),
               Zero>>]

\* Autopilot.update: dispatch on the state object
AutopilotUpdate(ctx) ==
    CASE ctx.state = "OFF"    -> OffUpdate(ctx)
      [] ctx.state = "SEARCH" -> SearchUpdate(ctx)
      [] ctx.state = "CHASE"  -> ChaseUpdate(ctx)
      [] ctx.state = "TRACK"  -> TrackUpdate(ctx)

\* ------------------------------------------------------------ the detector
\* A detection is the tuple <<x1, y1, x2, y2, cls_name>> (the confidence is
\* only drawn, never used by the control path).
Car == <<0, 0, 900, 700, "car">>
PersonCentre == <<380, 200, 580, 600, "person">>
PersonLow == <<100, 648, 300, 700, "person">>
PersonWide == <<168, 100, 1368, 700, "person">>

\* What one detector invocation can return.
DetectorOutputs ==
    { << >>, <<Car>>, <<Car, PersonLow, PersonCentre>>, <<PersonLow>>, <<PersonWide>> }

BoxOf(det) == <<det[1], det[2], det[3], det[4]>>
Area(det) == (det[3] - det[1]) * (det[4] - det[2])

\* The scan of detection_thread_func over the first k detections: the
\* largest area seen so far and the person box kept.
RECURSIVE Scan(_, _)
Scan(dets, k) ==
    IF k = 0 THEN [largest_area |-> 0, person_box |-> None]
    ELSE LET prev == Scan(dets, k - 1)
             det  == dets[k]
         IN  IF det[5] = "person" /\ Area(det) > prev.largest_area
             THEN [largest_area |-> Area(det), person_box |-> BoxOf(det)]
             ELSE prev

LargestPerson(dets) == Scan(dets, Len(dets)).person_box

\* ------------------------------------------------------------------- frames
\* A frame is the tuple <<height, width>>; what the frame source can yield.
Frames == { <<FrameHeight, FrameWidth>> }

\* A frame of another shape: nothing in run_drone fixes the shape of the
\* frames that frame_reader delivers.
SmallFrame == <<480, 640>>

\* The frames the control loop may find in the frame cell.  (The workers,
\* taken step by step, are given the frames of one shape: no step of theirs
\* reads the shape.)
SourceFrames == Frames \cup {SmallFrame}

\* The frame after overlay_dets and overlay_telemetry have drawn on it:
\* cv2.rectangle and cv2.putText write into the array they are given.
Annotated(f) == <<f[1], f[2], "overlay">>

\* A frame as the decoder delivered it, with nothing drawn on it.
IsRaw(f) == Len(f) = 2

\* --------------------------------------------------------------- the mixer
\* Mutant of Clamp: the value is passed on unclamped.
NoClamp(val) == val

\* clamp(val, -100, 100) = max(min_val, min(max_val, val))
Clamp(val) == RMax(FromInt(RcMin), RMin(FromInt(RcMax), val))

\* The manual deltas of one tick: each axis key pair reads as 1 (the first
\* key), -1 (the second key) or 0 (neither).
KeyAxis == {-1, 0, 1}
ManualLr(ctx, k) == k * ctx.speed_xy
ManualFb(ctx, k) == IF k = 1 THEN ctx.speed_xy
                    ELSE IF k = -1 THEN -BackFactor * ctx.speed_xy ELSE 0
ManualUd(ctx, k) == k * ctx.speed_z
ManualYaw(ctx, k) == k * ctx.speed_yaw

\* Mutant of Mix: the autopilot's yaw delta is added to the left-right axis
\* as well.
MixCrossTalk(ctx, keys, auto) ==
    << Trunc(Clamp(RAdd(FromInt(ManualLr(ctx, keys[1])), auto[1]))),
       Trunc(Clamp(RAdd(FromInt(ManualFb(ctx, keys[2])), auto[3]))),
       Trunc(Clamp(RAdd(FromInt(ManualUd(ctx, keys[3])), auto[2]))),
       Trunc(Clamp(RAdd(FromInt(ManualYaw(ctx, keys[4])), auto[1]))) >>

\* Mutant of Mix: while the autopilot is active its deltas replace the
\* manual ones.
MixAutopilotOverrides(ctx, keys, auto) ==
    IF ctx.state = "OFF"
    THEN << Trunc(Clamp(FromInt(ManualLr(ctx, keys[1])))),
            Trunc(Clamp(FromInt(ManualFb(ctx, keys[2])))),
            Trunc(Clamp(FromInt(ManualUd(ctx, keys[3])))),
            Trunc(Clamp(FromInt(ManualYaw(ctx, keys[4])))) >>
    ELSE << Trunc(Clamp(FromInt(ManualLr(ctx, keys[1])))),
            Trunc(Clamp(auto[3])), Trunc(Clamp(auto[2])), Trunc(Clamp(auto[1])) >>

\* The arguments of send_rc_control: int(lr), int(fb), int(ud), int(yaw),
\* from the key axes keys = <<lr, fb, ud, yaw>> and the autopilot deltas
\* auto = <<yaw_auto, ud_auto, fb_auto>>.
Mix(ctx, keys, auto) ==
    << Trunc(Clamp(FromInt(ManualLr(ctx, keys[1])))),
       Trunc(Clamp(RAdd(FromInt(ManualFb(ctx, keys[2])), auto[3]))),
       Trunc(Clamp(RAdd(FromInt(ManualUd(ctx, keys[3])), auto[2]))),
       Trunc(Clamp(RAdd(FromInt(ManualYaw(ctx, keys[4])), auto[1]))) >>

\* -------------------------------------------------------------------- state
VARIABLES
    autopilot,            \* the Autopilot object (the context of the states)
    call,                 \* the last call made on an Autopilot called freely,
                          \* and the ticks without a person box since CHASE
    shared_frame,         \* shared_frame["frame"]
    detection_result,     \* detection_result: boxes, person_box
    stream_shared_frame,  \* stream_shared_frame["frame"]
    frame_lock, detection_lock, stream_frame_lock,  \* the holder, or "free"
    stop_event, takeoff_event,
    pc,                   \* where each thread stands
    flying, person_box, auto, dims, \* run_drone locals: dims = <<fh, fw>>
    exc,                  \* the exception run_drone is unwinding with
    det,                  \* detection_thread_func locals
    cam,                  \* camera_thread_func locals
    rc,                   \* arguments of the send_rc_control call in progress
    keys,                 \* the key axes read on the tick of that call
    web,                  \* locals of the loop of WebApplication/main.py
    source,               \* the frame object frame_reader holds, drawn on or not
    takeoffs,             \* takeoff() invocations so far
    tick_sent,            \* the tick body has called send_rc_control
    attempted,            \* shutdown calls made on the vehicle so far
    failed                \* shutdown calls that raised

vars == <<autopilot, call, shared_frame, detection_result, stream_shared_frame,
          frame_lock, detection_lock, stream_frame_lock, stop_event,
          takeoff_event, pc, flying, person_box, auto, dims, exc, det, cam,
          rc, keys, web, source, takeoffs, tick_sent, attempted, failed>>

apVars == <<autopilot, call>>
cellVars == <<shared_frame, detection_result, stream_shared_frame>>
lockVars == <<frame_lock, detection_lock, stream_frame_lock>>
mainVars == <<flying, person_box, auto, dims, exc>>
vehicleVars == <<rc, keys, takeoffs, tick_sent, attempted, failed>>

\* The speeds run_drone is started with: its defaults, and one other choice.
SpeedChoices == { <<DefaultSpeed, DefaultSpeed, DefaultSpeed>>, <<30, 60, 200>> }

NoCall == [op |-> "none", person |-> FALSE, misses |-> 0]
NoDet == [frame |-> None, dets |-> << >>, person_box |-> None]
NoCam == [frame |-> None, dets |-> << >>, largest |-> None]

\* WebApplication/main.py, run_drone: the loop state before the loop
NewWeb == [autopilot |-> FALSE, key0_prev |-> FALSE, chase_counter |-> 0,
           last_xmid |-> Half, last_ytop |-> Half]

Init ==
    /\ \E sp \in SpeedChoices : autopilot = NewAutopilot(sp[1], sp[2], sp[3])
    /\ call = NoCall
    /\ shared_frame = None
    /\ detection_result = [boxes |-> << >>, person_box |-> None]
    /\ stream_shared_frame = None
    /\ frame_lock = "free" /\ detection_lock = "free" /\ stream_frame_lock = "free"
    /\ stop_event = FALSE /\ takeoff_event = FALSE
    /\ pc = [main |-> "wait_lock", det |-> "check", cam |-> "check"]
    /\ flying = FALSE /\ person_box = None
    /\ auto = <<Zero, Zero, Zero>>
    /\ dims = <<0, 0>>
    /\ exc = "none"
    /\ det = NoDet
    /\ cam = NoCam
    /\ rc = None /\ keys = None
    /\ web = NewWeb
    /\ source = None
    /\ takeoffs = 0
    /\ tick_sent = FALSE
    /\ attempted = {} /\ failed = {}

Goto(t, l) == pc' = [pc EXCEPT ![t] = l]

\* ------------------------------------------------- run_drone: the first frame
\* with frame_lock: (the wait loop before the main loop)
MainWaitLock ==
    /\ pc.main = "wait_lock" /\ frame_lock = "free"
    /\ frame_lock' = "main"
    /\ Goto("main", "wait_read")
    /\ UNCHANGED <<web, source, apVars, cellVars, detection_lock, stream_frame_lock, stop_event,
                   takeoff_event, mainVars, det, cam, vehicleVars>>

\* frame = shared_frame["frame"].copy() ...; fh, fw = ...; fh = 720; fw = 960
MainWaitRead ==
    /\ pc.main = "wait_read"
    /\ frame_lock' = "free"
    /\ IF shared_frame = None
       THEN Goto("main", "wait_lock") /\ dims' = dims
       ELSE Goto("main", "mode") /\ dims' = <<FrameHeight, FrameWidth>>
    /\ UNCHANGED <<web, source, apVars, cellVars, detection_lock, stream_frame_lock, stop_event,
                   takeoff_event, flying, person_box, auto, exc, det, cam, vehicleVars>>

\* ------------------------------------------------------ run_drone: one tick
\* keys '1', '0', '2': the first one pressed decides
ModeKeys == {"1", "0", "2", "none"}
KeyState(ctx, key) ==
    CASE key = "1" -> SetState(ctx, "OFF")
      [] key = "0" -> SetState(ctx, "SEARCH")
      [] key = "2" -> SetState(ctx, "TRACK")
      [] OTHER     -> ctx

MainModeSwitch ==
    /\ pc.main = "mode"
    /\ \E key \in ModeKeys :
          autopilot' = KeyState(autopilot, key)
    /\ Goto("main", "snap_lock")
    /\ UNCHANGED <<web, source, call, cellVars, lockVars, stop_event, takeoff_event, mainVars, det, cam,
                   vehicleVars>>

MainSnapLock ==
    /\ pc.main = "snap_lock" /\ detection_lock = "free"
    /\ detection_lock' = "main"
    /\ Goto("main", "snap")
    /\ UNCHANGED <<web, source, apVars, cellVars, frame_lock, stream_frame_lock, stop_event,
                   takeoff_event, mainVars, det, cam, vehicleVars>>

\* person_box = detection_result["person_box"] (the lock is released);
\* autopilot.update_detection(person_box, fw, fh);
\* yaw_auto, ud_auto, fb_auto, _ = autopilot.update()
MainTick ==
    /\ pc.main = "snap"
    /\ person_box' = detection_result.person_box
    /\ detection_lock' = "free"
    /\ LET seen == UpdateDetection(autopilot, detection_result.person_box,
                                   dims[2], dims[1])
       IN  /\ autopilot' = AutopilotUpdate(seen).ctx
           /\ auto' = AutopilotUpdate(seen).out
    /\ Goto("main", "act")
    /\ UNCHANGED <<web, source, call, cellVars, frame_lock, stream_frame_lock, stop_event, takeoff_event,
                   flying, dims, exc, det, cam, vehicleVars>>

\* Mutant of Transmit: the command is sent whether flying or not.
TransmitAlways(flag) == TRUE

\* Whether the tick body transmits the command it computed: if flying:
Transmit(flag) == flag

\* if flying: drone.send_rc_control(int(lr), int(fb), int(ud), int(yaw))
MainSend ==
    /\ pc.main = "act" /\ Transmit(flying)
    /\ \E pressed \in KeyAxis \X KeyAxis \X KeyAxis \X KeyAxis :
          /\ keys' = pressed
          /\ rc' = Mix(autopilot, pressed, auto)
    /\ tick_sent' = TRUE
    /\ Goto("main", "rc_call")
    /\ UNCHANGED <<web, source, apVars, cellVars, lockVars, stop_event, takeoff_event, mainVars,
                   det, cam, takeoffs, attempted, failed>>

\* What a failed send_rc_control in the tick body leads to.
AfterSendFailure == "stop"

\* send_rc_control returns, or raises out of the loop into the finally block
MainSendReturn ==
    /\ pc.main = "rc_call"
    /\ rc' = None /\ keys' = None
    /\ \E ok \in BOOLEAN :
          IF ok THEN Goto("main", "quit") /\ exc' = exc
          ELSE Goto("main", AfterSendFailure) /\ exc' = "tick"
    /\ UNCHANGED <<web, source, apVars, cellVars, lockVars, stop_event, takeoff_event, flying,
                   person_box, auto, dims, det, cam, takeoffs, tick_sent, attempted,
                   failed>>

\* else: if keyboard.is_pressed('5') or takeoff_event.is_set(): drone.takeoff()
MainTakeoff ==
    /\ pc.main = "act" /\ ~flying
    /\ \E key5 \in BOOLEAN : key5 \/ takeoff_event
    /\ takeoffs < MaxTakeoffs
    /\ takeoffs' = takeoffs + 1
    /\ \E ok \in BOOLEAN :
          IF ok THEN Goto("main", "tookoff") /\ exc' = exc
          ELSE Goto("main", "stop") /\ exc' = "tick"
    /\ UNCHANGED <<web, source, apVars, cellVars, lockVars, stop_event, takeoff_event, flying,
                   person_box, auto, dims, det, cam, rc, keys, tick_sent, attempted, failed>>

\* Mutant of FlyingAfterTakeoff: the flag is not raised after takeoff().
FlyingForgotten == FALSE

\* The flag run_drone keeps after drone.takeoff() has returned: flying = True
FlyingAfterTakeoff == TRUE

\* flying = True; takeoff_event.clear()
MainTookOff ==
    /\ pc.main = "tookoff"
    /\ flying' = FlyingAfterTakeoff
    /\ takeoff_event' = FALSE
    /\ Goto("main", "quit")
    /\ UNCHANGED <<web, source, apVars, cellVars, lockVars, stop_event, person_box, auto, dims, exc,
                   det, cam, vehicleVars>>

\* else: time.sleep(4); if space or esc is pressed: break
MainDwell ==
    /\ pc.main = "act" /\ ~flying /\ ~takeoff_event
    /\ \E abort \in BOOLEAN :
          Goto("main", IF abort THEN "stop" ELSE "quit")
    /\ UNCHANGED <<web, source, apVars, cellVars, lockVars, stop_event, takeoff_event, mainVars,
                   det, cam, vehicleVars>>

\* if cv2.waitKey(1) & 0xFF == 27 or keyboard.is_pressed('space'): break
MainQuit ==
    /\ pc.main = "quit"
    /\ \E quit \in BOOLEAN :
          Goto("main", IF quit THEN "stop" ELSE "mode")
    /\ UNCHANGED <<web, source, apVars, cellVars, lockVars, stop_event, takeoff_event, mainVars,
                   det, cam, vehicleVars>>

\* ------------------------------------------- run_drone: the finally block
\* stop_event.set()
MainStop ==
    /\ pc.main = "stop"
    /\ stop_event' = TRUE
    /\ Goto("main", "join_det")
    /\ UNCHANGED <<web, source, apVars, cellVars, lockVars, takeoff_event, mainVars, det, cam,
                   vehicleVars>>

\* Mutant of JoinReturns: join() without a timeout.
JoinWaits(ended) == ended

\* Whether thread.join(timeout=1) can return: when the thread has ended, and
\* after 1 s when it has not.
JoinReturns(ended) == TRUE

Ended(t) == pc[t] \in {"done", "crashed"}

\* det_thread.join(timeout=1): returns when the thread has ended or after 1 s
MainJoinDet ==
    /\ pc.main = "join_det"
    /\ JoinReturns(Ended("det"))
    /\ Goto("main", "join_cam")
    /\ UNCHANGED <<web, source, apVars, cellVars, lockVars, stop_event, takeoff_event, mainVars,
                   det, cam, vehicleVars>>

\* cam_thread.join(timeout=1)
MainJoinCam ==
    /\ pc.main = "join_cam"
    /\ JoinReturns(Ended("cam"))
    /\ Goto("main", "zero")
    /\ UNCHANGED <<web, source, apVars, cellVars, lockVars, stop_event, takeoff_event, mainVars,
                   det, cam, vehicleVars>>

\* One call of the shutdown sequence on the vehicle: it is recorded as
\* attempted and returns, or raises and is recorded as failed.
ShutdownCall(step, ok) ==
    /\ attempted' = attempted \cup {step}
    /\ failed' = IF ok THEN failed ELSE failed \cup {step}

\* Where the finally block goes on when send_rc_control(0, 0, 0, 0) raised:
\* the except clause ends the try block, drone.land() is skipped.
AfterZeroFailure == "fr_stop"

\* try: drone.send_rc_control(0, 0, 0, 0) ... except Exception: pass
MainZero ==
    /\ pc.main = "zero"
    /\ \E ok \in BOOLEAN :
          /\ ShutdownCall("zero", ok)
          /\ Goto("main", IF ok THEN "land" ELSE AfterZeroFailure)
    /\ UNCHANGED <<web, source, apVars, cellVars, lockVars, stop_event, takeoff_event, mainVars,
                   det, cam, rc, keys, takeoffs, tick_sent>>

\* ... drone.land() except Exception: pass
MainLand ==
    /\ pc.main = "land"
    /\ \E ok \in BOOLEAN : ShutdownCall("land", ok)
    /\ Goto("main", "fr_stop")
    /\ UNCHANGED <<web, source, apVars, cellVars, lockVars, stop_event, takeoff_event, mainVars,
                   det, cam, rc, keys, takeoffs, tick_sent>>

\* A call of the finally block outside the try: a raise leaves run_drone.
Unguarded(step, next) ==
    /\ \E ok \in BOOLEAN :
          /\ ShutdownCall(step, ok)
          /\ IF ok THEN Goto("main", next) /\ exc' = exc
             ELSE Goto("main", "raised") /\ exc' = "shutdown"
    /\ UNCHANGED <<web, source, apVars, cellVars, lockVars, stop_event, takeoff_event, flying,
                   person_box, auto, dims, det, cam, rc, keys, takeoffs, tick_sent>>

\* frame_reader.stop()
MainFrameReaderStop == pc.main = "fr_stop" /\ Unguarded("fr_stop", "streamoff")

\* drone.streamoff()
MainStreamOff == pc.main = "streamoff" /\ Unguarded("streamoff", "end")

\* drone.end()
MainEnd == pc.main = "end" /\ Unguarded("end", "destroy")

\* cv2.destroyAllWindows(), then run_drone returns or re-raises the tick's error
MainFinish ==
    /\ pc.main = "destroy"
    /\ Goto("main", IF exc = "none" THEN "returned" ELSE "raised")
    /\ UNCHANGED <<web, source, apVars, cellVars, lockVars, stop_event, takeoff_event, mainVars,
                   det, cam, vehicleVars>>

\* --------------------------------------------------- detection_thread_func
\* Mutant of StopSeen: the loop is a while True.
StopIgnored(flag) == FALSE

\* stop_event.is_set(), the test at the top of both workers' loops
StopSeen(flag) == flag

\* while not stop_event.is_set(): (also the sleep that ends an iteration)
DetCheck ==
    /\ pc.det = "check"
    /\ Goto("det", IF StopSeen(stop_event) THEN "done" ELSE "lock")
    /\ UNCHANGED <<web, source, apVars, cellVars, lockVars, stop_event, takeoff_event, mainVars,
                   det, cam, vehicleVars>>

DetLock ==
    /\ pc.det = "lock" /\ frame_lock = "free"
    /\ frame_lock' = "det"
    /\ Goto("det", "read")
    /\ UNCHANGED <<web, source, apVars, cellVars, detection_lock, stream_frame_lock, stop_event,
                   takeoff_event, mainVars, det, cam, vehicleVars>>

\* Mutant of AfterSnapshot: the read takes the value out of the cell.
SnapshotTakes(cell) == None

\* What a cell holds after it was read: the read is an indexing of the
\* dictionary, which leaves the entry in place.
AfterSnapshot(cell) == cell

\* Mutant of LockAfterRead: the detector call is inside the with block.
LockKept(holder) == holder

\* frame_lock after the detection worker's read: the with block ends with
\* the read, before the detector is called.
LockAfterRead(holder) == "free"

\* frame = shared_frame["frame"]; if frame is not None: ...
DetRead ==
    /\ pc.det = "read"
    /\ det' = [det EXCEPT !.frame = shared_frame]
    /\ shared_frame' = AfterSnapshot(shared_frame)
    /\ frame_lock' = LockAfterRead("det")
    /\ Goto("det", IF shared_frame = None THEN "check" ELSE "infer")
    /\ UNCHANGED <<web, source, apVars, detection_result, stream_shared_frame, detection_lock, stream_frame_lock, stop_event,
                   takeoff_event, mainVars, cam, vehicleVars>>

\* results = detector(frame); the scan for the largest person box
DetInfer ==
    /\ pc.det = "infer"
    /\ \E out \in DetectorOutputs :
          det' = [det EXCEPT !.dets = out, !.person_box = LargestPerson(out)]
    /\ Goto("det", "pub_lock")
    /\ UNCHANGED <<web, source, apVars, cellVars, lockVars, stop_event, takeoff_event, mainVars,
                   cam, vehicleVars>>

\* Where the worker stands after the detector raised: nothing in
\* detection_thread_func catches, so the thread ends.
AfterDetectorError == "crashed"

\* Mutant of CellAfterDetectorError: the failure is published as an empty result.
CellCleared(cell) == [boxes |-> << >>, person_box |-> None]

\* What the detection cell holds after the detector raised.
CellAfterDetectorError(cell) == cell

\* detector(frame) raises
DetInferFail ==
    /\ pc.det = "infer"
    /\ detection_result' = CellAfterDetectorError(detection_result)
    /\ Goto("det", AfterDetectorError)
    /\ UNCHANGED <<web, source, apVars, shared_frame, stream_shared_frame, lockVars, stop_event,
                   takeoff_event, mainVars, det, cam, vehicleVars>>

DetPubLock ==
    /\ pc.det = "pub_lock" /\ detection_lock = "free"
    /\ detection_lock' = "det"
    /\ Goto("det", "pub_boxes")
    /\ UNCHANGED <<web, source, apVars, cellVars, frame_lock, stream_frame_lock, stop_event,
                   takeoff_event, mainVars, det, cam, vehicleVars>>

\* detection_result["boxes"] = dets
DetPubBoxes ==
    /\ pc.det = "pub_boxes"
    /\ detection_result' = [detection_result EXCEPT !.boxes = det.dets]
    /\ Goto("det", "pub_person")
    /\ UNCHANGED <<web, source, apVars, shared_frame, stream_shared_frame, lockVars, stop_event,
                   takeoff_event, mainVars, det, cam, vehicleVars>>

\* Mutant of HandOver: the detection worker feeds the autopilot itself.
WorkerFeedsAutopilot(ctx, pb) == UpdateDetection(ctx, pb, FrameWidth, FrameHeight)

\* The autopilot after the detection worker has handed over its person box:
\* the worker assigns the cell and never touches the autopilot.
HandOver(ctx, pb) == ctx

\* detection_result["person_box"] = person_box; the locals are dead from here
DetPubPerson ==
    /\ pc.det = "pub_person"
    /\ detection_result' = [detection_result EXCEPT !.person_box = det.person_box]
    /\ autopilot' = HandOver(autopilot, det.person_box)
    /\ detection_lock' = "free"
    /\ det' = NoDet
    /\ Goto("det", "check")
    /\ UNCHANGED <<web, source, call, shared_frame, stream_shared_frame, frame_lock,
                   stream_frame_lock, stop_event, takeoff_event, mainVars, cam,
                   vehicleVars>>

\* ------------------------------------------------------ camera_thread_func
\* while not stop_event.is_set(): (also the sleep that ends an iteration)
CamCheck ==
    /\ pc.cam = "check"
    /\ Goto("cam", IF StopSeen(stop_event) THEN "done" ELSE "read")
    /\ UNCHANGED <<web, source, apVars, cellVars, lockVars, stop_event, takeoff_event, mainVars,
                   det, cam, vehicleVars>>

\* frame = frame_reader.frame: the source yields a frame or nothing
CamRead ==
    /\ pc.cam = "read"
    /\ \E f \in Frames \cup {None} : cam' = [cam EXCEPT !.frame = f]
    /\ Goto("cam", "lock")
    /\ UNCHANGED <<web, source, apVars, cellVars, lockVars, stop_event, takeoff_event, mainVars,
                   det, vehicleVars>>

CamLock ==
    /\ pc.cam = "lock" /\ frame_lock = "free"
    /\ frame_lock' = "cam"
    /\ Goto("cam", "pub")
    /\ UNCHANGED <<web, source, apVars, cellVars, detection_lock, stream_frame_lock, stop_event,
                   takeoff_event, mainVars, det, cam, vehicleVars>>

\* shared_frame["frame"] = frame.copy() if frame is not None else None
CamPub ==
    /\ pc.cam = "pub"
    /\ shared_frame' = cam.frame
    /\ frame_lock' = "free"
    /\ Goto("cam", IF cam.frame = None THEN "check" ELSE "det_lock")
    /\ UNCHANGED <<web, source, apVars, detection_result, stream_shared_frame, detection_lock,
                   stream_frame_lock, stop_event, takeoff_event, mainVars, det, cam,
                   vehicleVars>>

CamDetLock ==
    /\ pc.cam = "det_lock" /\ detection_lock = "free"
    /\ detection_lock' = "cam"
    /\ Goto("cam", "det_read")
    /\ UNCHANGED <<web, source, apVars, cellVars, frame_lock, stream_frame_lock, stop_event,
                   takeoff_event, mainVars, det, cam, vehicleVars>>

\* Mutant of LockAfterCopy: the overlays are drawn inside the with block.
CopyKeepsLock(holder) == holder

\* detection_lock after the frame producer copied the boxes: the with block
\* holds the copy alone.
LockAfterCopy(holder) == "free"

\* dets = list(detection_result["boxes"])
CamDetRead ==
    /\ pc.cam = "det_read"
    /\ cam' = [cam EXCEPT !.dets = detection_result.boxes]
    /\ detection_lock' = LockAfterCopy("cam")
    /\ Goto("cam", "overlay")
    /\ UNCHANGED <<web, source, apVars, cellVars, frame_lock, stream_frame_lock, stop_event,
                   takeoff_event, mainVars, det, vehicleVars>>

\* overlay_dets (largest = detection_result.get("person_box"), read without
\* the lock) and overlay_telemetry; drone.get_battery() or drone.get_height()
\* may raise, which ends the thread
CamOverlay ==
    /\ pc.cam = "overlay"
    /\ cam' = [cam EXCEPT !.largest = detection_result.person_box]
    /\ \E ok \in BOOLEAN : Goto("cam", IF ok THEN "stream_lock" ELSE "crashed")
    /\ UNCHANGED <<web, source, apVars, cellVars, lockVars, stop_event, takeoff_event, mainVars,
                   det, vehicleVars>>

CamStreamLock ==
    /\ pc.cam = "stream_lock" /\ stream_frame_lock = "free"
    /\ stream_frame_lock' = "cam"
    /\ Goto("cam", "stream_pub")
    /\ UNCHANGED <<web, source, apVars, cellVars, frame_lock, detection_lock, stop_event,
                   takeoff_event, mainVars, det, cam, vehicleVars>>

\* stream_shared_frame["frame"] = frame.copy(); the locals are dead from here
CamStreamPub ==
    /\ pc.cam = "stream_pub"
    /\ stream_shared_frame' = cam.frame
    /\ stream_frame_lock' = "free"
    /\ cam' = NoCam
    /\ Goto("cam", "check")
    /\ UNCHANGED <<web, source, apVars, shared_frame, detection_result, frame_lock, detection_lock,
                   stop_event, takeoff_event, mainVars, det, vehicleVars>>

\* ------------------------------------------------------------ do_something
\* POST /do: takeoff_event.set()
DoSomething ==
    /\ takeoff_event' = TRUE
    /\ UNCHANGED <<web, source, apVars, cellVars, lockVars, stop_event, pc, mainVars, det, cam,
                   vehicleVars>>

\* ----------------------------------------------------------- specification
Main ==
    \/ MainWaitLock \/ MainWaitRead
    \/ MainModeSwitch \/ MainSnapLock \/ MainTick
    \/ MainSend \/ MainSendReturn \/ MainTakeoff \/ MainTookOff \/ MainDwell \/ MainQuit
    \/ MainStop \/ MainJoinDet \/ MainJoinCam \/ MainZero \/ MainLand
    \/ MainFrameReaderStop \/ MainStreamOff \/ MainEnd \/ MainFinish

Detection ==
    \/ DetCheck \/ DetLock \/ DetRead \/ DetInfer \/ DetInferFail
    \/ DetPubLock \/ DetPubBoxes \/ DetPubPerson

Camera ==
    \/ CamCheck \/ CamRead \/ CamLock \/ CamPub \/ CamDetLock \/ CamDetRead
    \/ CamOverlay \/ CamStreamLock \/ CamStreamPub

\* One iteration of detection_thread_func as the control loop sees it: a
\* whole result is published under detection_lock.
DetectionPublishes ==
    /\ shared_frame # None /\ detection_lock = "free"
    /\ \E out \in DetectorOutputs :
          detection_result' = [boxes |-> out, person_box |-> LargestPerson(out)]
    /\ UNCHANGED <<web, source, apVars, shared_frame, stream_shared_frame, lockVars, stop_event,
                   takeoff_event, pc, mainVars, det, cam, vehicleVars>>

\* One iteration of camera_thread_func as the control loop sees it: the
\* frame cell is overwritten under frame_lock.
CameraPublishes ==
    /\ frame_lock = "free"
    /\ \E f \in SourceFrames \cup {None} : shared_frame' = f
    /\ UNCHANGED <<web, source, apVars, detection_result, stream_shared_frame, lockVars, stop_event,
                   takeoff_event, pc, mainVars, det, cam, vehicleVars>>

\* The control loop, with the workers' iterations taken whole.
Next == Main \/ DoSomething \/ DetectionPublishes \/ CameraPublishes

Spec == Init /\ [][Next]_vars

\* run_drone as the workers see it: it sets the stop signal at some point.
ControlStops ==
    /\ ~stop_event
    /\ stop_event' = TRUE
    /\ UNCHANGED <<web, source, apVars, cellVars, lockVars, takeoff_event, pc, mainVars, det, cam,
                   vehicleVars>>

\* The two workers step by step, with the control loop taken whole.
WorkersNext == Detection \/ Camera \/ ControlStops

SpecWorkers == Init /\ [][WorkersNext]_vars

\* run_drone from the first frame to the end of its loop, as the shutdown
\* sees it: the loop is left by a quit key or by an exception of the tick.
ControlLeavesLoop ==
    /\ pc.main = "wait_lock" /\ shared_frame # None
    /\ \E e \in {"none", "tick"} : exc' = e
    /\ Goto("main", "stop")
    /\ UNCHANGED <<web, source, apVars, cellVars, lockVars, stop_event, takeoff_event, flying,
                   person_box, auto, dims, det, cam, vehicleVars>>

Shutdown ==
    \/ MainStop \/ MainJoinDet \/ MainJoinCam \/ MainZero \/ MainLand
    \/ MainFrameReaderStop \/ MainStreamOff \/ MainEnd \/ MainFinish

\* The shutdown sequence step by step beside the two workers step by step,
\* with the control loop before it taken whole.
ShutdownNext == Detection \/ Camera \/ ControlLeavesLoop \/ Shutdown

SpecShutdown == Init /\ [][ShutdownNext]_vars

\* One tick of run_drone as the autopilot sees it: the mode keys, the
\* snapshot of person_box under detection_lock, update_detection and update.
\* The command that follows changes nothing these read. call records the
\* tick: whether it saw a person box, and how many ticks in a row were made
\* with the detection thread ended.
ControlTick ==
    /\ pc.main = "mode" /\ detection_lock = "free"
    /\ person_box' = detection_result.person_box
    /\ \E key \in ModeKeys :
          LET seen == UpdateDetection(KeyState(autopilot, key),
                                      detection_result.person_box,
                                      dims[2], dims[1])
          IN  /\ autopilot' = AutopilotUpdate(seen).ctx
              /\ auto' = AutopilotUpdate(seen).out
    /\ call' = [op |-> "tick",
                person |-> detection_result.person_box # None,
                misses |-> IF ~Ended("det") THEN 0
                           ELSE IF call.misses < MaxMisses
                                THEN call.misses + 1 ELSE MaxMisses]
    /\ UNCHANGED <<web, source, cellVars, lockVars, stop_event, takeoff_event, pc, flying,
                   dims, exc, det, cam, vehicleVars>>

\* The detection worker step by step beside the control loop tick by tick,
\* with the frame producer's iterations taken whole.
LossNext ==
    MainWaitLock \/ MainWaitRead \/ ControlTick \/ Detection \/ CameraPublishes

SpecLoss == Init /\ [][LossNext]_vars

\* The frame reader of the vehicle library decodes the next video frame into
\* a new object, which frame_reader.frame returns from then on.
SourceDecodes ==
    /\ \E f \in Frames : source' = f
    /\ UNCHANGED <<web, apVars, cellVars, lockVars, stop_event, takeoff_event, pc,
                   mainVars, det, cam, vehicleVars>>

\* The object frame_reader.frame returned, after the iteration that read it:
\* overlay_dets(frame, ...) and overlay_telemetry(frame, ...) drew on it.
DrawnOn(f) == Annotated(f)

\* One iteration of camera_thread_func as the frame source sees it:
\* frame = frame_reader.frame returns the object the reader holds, a copy of
\* it goes to the frame cell, the overlays are drawn on the object itself and
\* a copy of the result goes to the stream cell.
ProducerIteration ==
    /\ frame_lock = "free" /\ detection_lock = "free" /\ stream_frame_lock = "free"
    /\ shared_frame' = source
    /\ IF source = None
       THEN UNCHANGED <<source, stream_shared_frame>>
       ELSE /\ source' = DrawnOn(source)
            /\ stream_shared_frame' = Annotated(source)
    /\ UNCHANGED <<web, apVars, detection_result, lockVars, stop_event, takeoff_event,
                   pc, mainVars, det, cam, vehicleVars>>

\* The frame producer iteration by iteration beside the frame reader of the
\* library and the detection worker step by step.
FramesNext == SourceDecodes \/ ProducerIteration \/ Detection

SpecFrames == Init /\ [][FramesNext]_vars

\* --------------------------------------------------------- generate_frames
\* with stream_frame_lock: (a generator runs for each client of /video_feed)
GenLock ==
    /\ stream_frame_lock = "free"
    /\ stream_frame_lock' = "gen"
    /\ UNCHANGED <<web, source, apVars, cellVars, frame_lock, detection_lock, stop_event,
                   takeoff_event, pc, mainVars, det, cam, vehicleVars>>

\* frame = stream_shared_frame["frame"]; the lock is released before the
\* frame (or a blank image) is encoded and yielded
GenRead ==
    /\ stream_frame_lock = "gen"
    /\ stream_frame_lock' = "free"
    /\ UNCHANGED <<web, source, apVars, cellVars, frame_lock, detection_lock, stop_event,
                   takeoff_event, pc, mainVars, det, cam, vehicleVars>>

Generator == GenLock \/ GenRead

\* run_drone up to the end of its first detection snapshot, step by step:
\* its two with blocks, the one of the first-frame wait and the one every
\* tick begins with.
ControlLocks ==
    \/ MainWaitLock \/ MainWaitRead
    \/ MainModeSwitch \/ MainSnapLock \/ MainTick

\* The four threads that take the locks, each step by step.
LocksNext == ControlLocks \/ Detection \/ Camera \/ Generator

SpecLocks == Init /\ [][LocksNext]_vars

\* ------------------------------- WebApplication/main.py: the standalone loop
\* The standalone run_drone, after its setup and takeoff(), at the top of
\* its loop.
InitWeb ==
    /\ autopilot = NewAutopilot(DefaultSpeed, DefaultSpeed, DefaultSpeed)
    /\ call = NoCall
    /\ shared_frame = None
    /\ detection_result = [boxes |-> << >>, person_box |-> None]
    /\ stream_shared_frame = None
    /\ frame_lock = "free" /\ detection_lock = "free" /\ stream_frame_lock = "free"
    /\ stop_event = FALSE /\ takeoff_event = FALSE
    /\ pc = [main |-> "web_loop", det |-> "check", cam |-> "check"]
    /\ flying = FALSE /\ person_box = None
    /\ auto = <<Zero, Zero, Zero>>
    /\ dims = <<0, 0>>
    /\ exc = "none"
    /\ det = NoDet
    /\ cam = NoCam
    /\ rc = None /\ keys = None
    /\ web = NewWeb
    /\ source = None
    /\ takeoffs = 0
    /\ tick_sent = FALSE
    /\ attempted = {} /\ failed = {}

\* 0. the autopilot flag after key '0': toggled on the key's rising edge
WebToggle(w, key0) ==
    [w EXCEPT !.autopilot = IF key0 /\ ~w.key0_prev THEN ~w.autopilot
                            ELSE w.autopilot,
              !.key0_prev = key0]

\* 3. chase counter and last seen position; pb is the largest person box of
\* this iteration, None when the detector did not run or saw no person
WebSeen(w, pb, fw, fh) ==
    IF w.autopilot /\ pb # None
    THEN [w EXCEPT !.last_xmid = Rat(pb[1] + pb[3], 2 * fw),
                   !.last_ytop = Rat(pb[2], fh),
                   !.chase_counter = WebLookahead]
    ELSE IF w.autopilot /\ w.chase_counter > 0
         THEN [w EXCEPT !.chase_counter = w.chase_counter - 1]
         ELSE w

WebChasing(w) == w.autopilot /\ w.chase_counter > 0

\* 4. yaw_auto and ud_auto
WebYawAuto(w) ==
    IF ~w.autopilot THEN 0
    ELSE IF w.chase_counter > 0
         THEN IF RLt(w.last_xmid, Half) THEN -WebSpeed ELSE WebSpeed
         ELSE WebSpeed

WebUdAuto(w) ==
    IF WebChasing(w)
    THEN IF RLt(w.last_ytop, Half) THEN WebSpeed
         ELSE IF RLt(Half, w.last_ytop) THEN -WebSpeed ELSE 0
    ELSE 0

\* max(-100, min(100, v)) on integers
WebClamp(v) == IF v < RcMin THEN RcMin ELSE IF v > RcMax THEN RcMax ELSE v

\* 5. the arguments of send_rc_control(lr, fb, ud_cmd, yaw_cmd)
WebCommand(w, pressed) ==
    << pressed[1] * WebSpeed,
       IF pressed[2] = 1 \/ WebChasing(w) THEN WebFbFactor * WebSpeed
       ELSE IF pressed[2] = -1 THEN -WebFbFactor * WebSpeed ELSE 0,
       WebClamp(pressed[3] * WebSpeed + WebUdAuto(w)),
       WebClamp(pressed[4] * WebSpeed + WebYawAuto(w)) >>

\* One iteration up to the send_rc_control call; without a frame the
\* iteration ends after the toggle (continue).  The detector's boxes are
\* scanned as in detection_thread_func; an iteration on which the detector
\* is not due has no person box, like one on which it returns nothing.
WebTick ==
    /\ pc.main = "web_loop"
    /\ \E key0 \in BOOLEAN, f \in Frames \cup {None}, out \in DetectorOutputs,
          pressed \in KeyAxis \X KeyAxis \X KeyAxis \X KeyAxis :
          LET toggled == WebToggle(web, key0)
              pb      == LargestPerson(out)
          IN  IF f = None
              THEN /\ web' = toggled
                   /\ UNCHANGED <<rc, keys, pc>>
              ELSE /\ web' = WebSeen(toggled, pb, f[2], f[1])
                   /\ keys' = pressed
                   /\ rc' = WebCommand(web', pressed)
                   /\ Goto("main", "web_rc_call")
    /\ UNCHANGED <<source, apVars, cellVars, lockVars, stop_event, takeoff_event, mainVars,
                   det, cam, takeoffs, tick_sent, attempted, failed>>

\* send_rc_control returns and the loop goes on, or the loop is left for
\* the finally block: by an exception or by space / esc
WebSendReturn ==
    /\ pc.main = "web_rc_call"
    /\ rc' = None /\ keys' = None
    /\ \E next \in {"web_loop", "web_finally"} : Goto("main", next)
    /\ UNCHANGED <<source, apVars, cellVars, lockVars, stop_event, takeoff_event, mainVars,
                   det, cam, web, takeoffs, tick_sent, attempted, failed>>

WebNext == WebTick \/ WebSendReturn

SpecWeb == InitWeb /\ [][WebNext]_vars

\* ------------------------------------------- the scan for the person box
\* Boxes for the scan: two person boxes of the same area, a smaller one, one
\* whose corners coincide horizontally once truncated to integers, a car.
PersonTwin == <<100, 100, 300, 500, "person">>
PersonFlat == <<500, 300, 500, 400, "person">>
ScanBoxes == {Car, PersonCentre, PersonTwin, PersonLow, PersonFlat}

RECURSIVE SeqsUpTo(_, _)
SeqsUpTo(S, n) ==
    IF n = 0 THEN { << >> }
    ELSE LET shorter == SeqsUpTo(S, n - 1)
         IN  shorter \cup { Append(q, x) : q \in shorter, x \in S }

\* The detection worker with the detector's boxes in hand, before its scan.
InitScan ==
    /\ \E sp \in SpeedChoices : autopilot = NewAutopilot(sp[1], sp[2], sp[3])
    /\ call = NoCall
    /\ \E f \in Frames, results \in SeqsUpTo(ScanBoxes, MaxBoxes) :
          /\ shared_frame = f
          /\ det = [frame |-> f, dets |-> results, person_box |-> None]
    /\ detection_result = [boxes |-> << >>, person_box |-> None]
    /\ stream_shared_frame = None
    /\ frame_lock = "free" /\ detection_lock = "free" /\ stream_frame_lock = "free"
    /\ stop_event = FALSE /\ takeoff_event = FALSE
    /\ pc = [main |-> "wait_lock", det |-> "scan", cam |-> "check"]
    /\ flying = FALSE /\ person_box = None
    /\ auto = <<Zero, Zero, Zero>>
    /\ dims = <<0, 0>>
    /\ exc = "none"
    /\ cam = NoCam
    /\ rc = None /\ keys = None
    /\ web = NewWeb
    /\ source = None
    /\ takeoffs = 0
    /\ tick_sent = FALSE
    /\ attempted = {} /\ failed = {}

\* for box, cls_id, conf in zip(...): the scan over the detector's boxes
DetScan ==
    /\ pc.det = "scan"
    /\ det' = [det EXCEPT !.person_box = LargestPerson(det.dets)]
    /\ Goto("det", "pub_lock")
    /\ UNCHANGED <<web, source, apVars, cellVars, lockVars, stop_event, takeoff_event, mainVars,
                   cam, vehicleVars>>

ScanNext == DetScan \/ DetPubLock \/ DetPubBoxes \/ DetPubPerson

SpecScan == InitScan /\ [][ScanNext]_vars

\* ------------------------------------- the Autopilot class, called freely
PersonLowWide == <<168, 660, 1368, 700, "person">>
PersonLowCentre == <<470, 600, 490, 700, "person">>

\* The person boxes update_detection is called with: those the model's
\* detector yields, two more whose top is low in the frame, and none.
PersonBoxes ==
    { LargestPerson(out) : out \in DetectorOutputs }
        \cup { BoxOf(PersonLowWide), BoxOf(PersonLowCentre) }

\* What a call on the Autopilot object leaves alone.
ApiFrame ==
    UNCHANGED <<web, source, cellVars, lockVars, stop_event, takeoff_event, pc, flying, person_box,
                dims, exc, det, cam, vehicleVars>>

\* The run of ticks without a person box that began in CHASE, after an
\* update_detection call: a person box ends the run, a call without one
\* begins it in CHASE and prolongs it in any state.
MissesAfter(pb) ==
    IF pb # None THEN 0
    ELSE IF call.misses > 0 \/ autopilot.state = "CHASE"
         THEN IF call.misses < MaxMisses THEN call.misses + 1 ELSE MaxMisses
         ELSE 0

ApiSetState ==
    /\ \E s \in StateNames : autopilot' = SetState(autopilot, s)
    /\ call' = [op |-> "set_state", person |-> FALSE, misses |-> 0]
    /\ UNCHANGED auto
    /\ ApiFrame

ApiUpdateDetection ==
    /\ \E pb \in PersonBoxes :
          /\ autopilot' = UpdateDetection(autopilot, pb, FrameWidth, FrameHeight)
          /\ call' = [op |-> "update_detection", person |-> pb # None,
                       misses |-> MissesAfter(pb)]
    /\ UNCHANGED auto
    /\ ApiFrame

ApiUpdate ==
    /\ autopilot' = AutopilotUpdate(autopilot).ctx
    /\ auto' = AutopilotUpdate(autopilot).out
    /\ call' = [op |-> "update", person |-> FALSE, misses |-> call.misses]
    /\ ApiFrame

ApiNext == ApiSetState \/ ApiUpdateDetection \/ ApiUpdate

SpecAutopilot == Init /\ [][ApiNext]_vars

\* ==================================================================== claims

C2_CommandInRange ==
    rc # None => \A i \in 1..4 : rc[i] \in Int /\ -100 <= rc[i] /\ rc[i] <= 100

\* A command whose forward-back and yaw sums were clamped on both ends.
C2_Witness ==
    /\ rc # None /\ rc[2] = -100 /\ rc[4] = 100
    /\ autopilot.state = "CHASE" /\ autopilot.speed_yaw = 200

\* C3: once run_drone has left the loop and its finally block, the stop
\* signal is set and the zero command was attempted; and the session is
\* released (drone.end()) only after the stop signal was set and the zero
\* command and then land were attempted.
C3_ShutdownRuns ==
    /\ pc.main \in {"returned", "raised"} => stop_event /\ "zero" \in attempted
    /\ "end" \in attempted => stop_event /\ {"zero", "land"} \subseteq attempted

\* C4: once run_drone has left its shutdown sequence, every step of it was
\* attempted, whichever earlier step failed.
C4_EveryStepAttempted ==
    pc.main \in {"returned", "raised"}
        => {"zero", "land", "fr_stop", "streamoff", "end"} \subseteq attempted

\* C5: no failure of a shutdown step propagates out of run_drone.
C5_ShutdownNeverRaises == exc # "shutdown"

\* C6: the tick body calls send_rc_control only after takeoff() was
\* invoked and the loop is flying.
C6_PreFlightHold ==
    (tick_sent \/ rc # None) => (flying /\ takeoffs >= 1)

\* A tick has run in SEARCH before any takeoff: its command was computed
\* and nothing was sent.
C6_Witness ==
    /\ pc.main = "quit" /\ ~flying /\ takeoffs = 0
    /\ autopilot.mode = 1 /\ auto[1] # Zero /\ ~tick_sent

\* C7: when the tick's send_rc_control call ends, by returning or by
\* raising, the loop goes on with the tick and nothing unwinds.
C7_SendFailureSkipsTick ==
    [][(pc.main = "rc_call" /\ pc'.main # "rc_call")
          => (pc'.main = "quit" /\ exc' = "none")]_vars

\* C8: the detection worker is never ended by a detector failure.
C8_WorkerSurvivesDetector == pc.det # "crashed"

\* C9: a step that leaves the detection worker at a detector failure leaves
\* the detection cell as it was.
C9_CellUnchangedOnError ==
    [][pc'.det = "crashed" => detection_result' = detection_result]_vars

\* The detector raised after a result with a person box was published.
C9_Witness == pc.det = "crashed" /\ detection_result.person_box # None

\* C10: a tick that finds the autopilot in SEARCH leaves it in CHASE when
\* the detection it consumed holds a person box, and in SEARCH otherwise.
C10_SearchToChase ==
    [][(pc.main = "snap" /\ pc'.main = "act" /\ autopilot.state = "SEARCH")
          => autopilot'.state = IF person_box' # None THEN "CHASE" ELSE "SEARCH"]_vars

\* A tick has consumed a person box and the autopilot chases.
C10_Witness ==
    /\ pc.main = "act" /\ person_box # None
    /\ autopilot.state = "CHASE" /\ autopilot.chase_counter = 7

\* C11: on a control tick that starts in CHASE (the mode keys of the tick
\* selected nothing), the state becomes SEARCH if and only if the tick was
\* given no person box and chase_counter reached 0 on it; otherwise the
\* state stays CHASE.  On the tick that leaves CHASE the deltas are the
\* SEARCH output (speed_yaw, 0, 0).
C11_ChaseToSearch ==
    [][(pc.main = "snap" /\ pc'.main = "act" /\ autopilot.state = "CHASE")
          => /\ autopilot'.state \in {"CHASE", "SEARCH"}
             /\ autopilot'.state = "SEARCH"
                   <=> (person_box' = None /\ autopilot'.chase_counter = 0)
             /\ autopilot'.state = "SEARCH"
                   => auto' = <<FromInt(autopilot.speed_yaw), Zero, Zero>>]_vars

\* A tick has just left CHASE: the counter ran out without a person box.
C11_Witness ==
    /\ pc.main = "act" /\ autopilot.state = "SEARCH" /\ autopilot.mode = 1
    /\ person_box = None /\ autopilot.chase_counter = 0
    /\ autopilot.last_xmid # Half
    /\ auto = <<FromInt(autopilot.speed_yaw), Zero, Zero>>

C13_ChaseOnlyAutomatic ==
    [][autopilot'.state # autopilot.state
          => \/ pc.main = "mode" /\ autopilot'.state \in {"OFF", "SEARCH", "TRACK"}
             \/ /\ pc.main = "snap" /\ person_box' # None
                /\ autopilot.state = "SEARCH" /\ autopilot'.state = "CHASE"
             \/ /\ pc.main = "snap"
                /\ autopilot.state = "CHASE" /\ autopilot'.state = "SEARCH"]_vars

\* A tick in TRACK was given a person box and stayed in TRACK.
C13_Witness ==
    /\ pc.main = "act" /\ autopilot.state = "TRACK" /\ autopilot.mode = 3
    /\ person_box # None /\ autopilot.chase_counter = ChaseLookahead

C15_FrameStaysPublished ==
    [][(pc.det = "read" /\ pc'.det # "read" /\ stream_shared_frame # None)
          => det'.frame # None]_vars

\* C16: the boxes and the person_box that the overlay producer draws on one
\* frame come from the same publish of the detection worker.  (Every
\* publish, like the initial cell, holds the largest person box of its own
\* boxes, so a pair from one publish agrees in this way.)
C16_ResultObservedAsUnit ==
    pc.cam \in {"stream_lock", "stream_pub"}
        => cam.largest = LargestPerson(cam.dets)

\* C17: no step of the detection worker or of the overlay producer changes
\* the autopilot context: what they produce reaches the control loop
\* through the cells only.
C17_WorkersNeverWriteAutopilot ==
    [][autopilot' = autopilot]_vars

\* The detection worker has published a person box and the overlay producer
\* a frame, and the autopilot is as it was constructed.
C17_Witness ==
    /\ detection_result.person_box # None /\ stream_shared_frame # None
    /\ pc.det = "check" /\ pc.cam = "check"
    /\ autopilot.state = "OFF" /\ autopilot.chase_counter = 0
    /\ autopilot.last_xmid = Half

C19_ShutdownPassesJoins ==
    /\ pc.main \in {"stop", "join_det", "join_cam", "zero", "land", "fr_stop"}
          => ENABLED Shutdown
    /\ pc.main \in {"zero", "land"} => stop_event
    /\ pc.main = "fr_stop" => "zero" \in attempted

\* The zero command has been sent while neither worker has ended.
C19_Witness ==
    /\ "zero" \in attempted /\ "fr_stop" \in attempted
    /\ ~Ended("det") /\ ~Ended("cam")

\* C20: both workers test the one stop signal at the top of their loop.
\* Once it is set it stays set, and a worker that stands at the top of its
\* loop, at once or when the iteration in progress has come back there,
\* starts no iteration: its only step is to end, and it stays ended.
C20_StopAtLoopTop ==
    [][/\ stop_event => stop_event'
       /\ \A t \in {"det", "cam"} :
             /\ (stop_event /\ pc[t] = "check" /\ pc'[t] # "check")
                   => pc'[t] = "done"
             /\ pc[t] = "done" => pc'[t] = "done"]_vars

\* After the stop signal the detection worker has ended, and the frame
\* producer is finishing the iteration it was in.
C20_Witness ==
    /\ stop_event /\ pc.det = "done" /\ pc.cam = "stream_pub"
    /\ detection_result.person_box # None

\* C21: the control loop updates the autopilot only after the frame cell
\* has yielded a frame, and the height and width it passes to
\* update_detection from then on are those of that first frame.
C21_FirstFrameDimensions ==
    [][/\ autopilot' # autopilot => dims # <<0, 0>>
       /\ (pc.main = "wait_read" /\ pc'.main = "mode") => dims' = shared_frame
       /\ dims # <<0, 0>> => dims' = dims]_vars

PersonIndices(boxes) == { i \in 1..Len(boxes) : boxes[i][5] = "person" }

\* C22: whatever boxes the detector returned, the person_box published with
\* them is present exactly when one of them has class "person", and it is
\* then the first, in scan order, of the person boxes of maximal area.
C22_LargestPersonPublished ==
    pc.det = "check"
        => LET boxes == detection_result.boxes
               P     == PersonIndices(boxes)
           IN  /\ detection_result.person_box # None <=> P # {}
               /\ P # {} =>
                     \E i \in P :
                        /\ detection_result.person_box = BoxOf(boxes[i])
                        /\ \A j \in P : Area(boxes[j]) <= Area(boxes[i])
                        /\ \A j \in P : j < i => Area(boxes[j]) < Area(boxes[i])

\* The value sent on an axis for a manual delta and an autopilot delta.
Sent(manual, delta) ==
    LET sum == RAdd(FromInt(manual), delta)
        cut == IF RLt(sum, FromInt(-100)) THEN FromInt(-100)
               ELSE IF RLt(FromInt(100), sum) THEN FromInt(100) ELSE sum
    IN  IF RLt(cut, Zero) THEN -Trunc(RNeg(cut)) ELSE Trunc(cut)

\* C23: in every autopilot state, the forward-back, up-down and yaw values
\* sent on a tick are the sum of that axis's manual delta and autopilot
\* delta, cut to [-100, 100] and truncated toward zero.
C23_AdditiveMixing ==
    rc # None
        => /\ rc[2] = Sent(ManualFb(autopilot, keys[2]), auto[3])
           /\ rc[3] = Sent(ManualUd(autopilot, keys[3]), auto[2])
           /\ rc[4] = Sent(ManualYaw(autopilot, keys[4]), auto[1])

\* In CHASE a manual forward-back input and the autopilot's forward-back
\* delta are both in the value sent: it is neither of the two alone.
C23_Witness ==
    /\ rc # None /\ autopilot.state = "CHASE" /\ keys[2] # 0 /\ auto[3] # Zero
    /\ rc[2] # Sent(ManualFb(autopilot, keys[2]), Zero)
    /\ rc[2] # Sent(0, auto[3])
    /\ rc[2] > -100 /\ rc[2] < 100

\* C24: the left-right value sent is the manual left-right delta alone, cut
\* and truncated, and the yaw value sent is made of the manual yaw delta
\* and the autopilot's yaw delta alone.  With manual left at speed 100, an
\* autopilot yaw delta of 60 and no manual yaw, left-right is -100 and yaw
\* is 60.
C24_AxesIndependent ==
    rc # None
        => /\ rc[1] = Sent(ManualLr(autopilot, keys[1]), Zero)
           /\ rc[4] = Sent(ManualYaw(autopilot, keys[4]), auto[1])
           /\ (ManualLr(autopilot, keys[1]) = -100 /\ auto[1] = FromInt(60)
                 /\ keys[4] = 0)
                 => rc[1] = -100 /\ rc[4] = 60

\* Manual left while the autopilot turns right at 60 and pushes the other
\* two axes as well.
C24_Witness ==
    /\ rc # None /\ keys[1] = -1 /\ keys[4] = 0
    /\ autopilot.speed_xy = 100 /\ auto[1] = FromInt(60)
    /\ auto[2] # Zero /\ auto[3] # Zero
    /\ rc[1] = -100 /\ rc[4] = 60

\* C25: an update made in CHASE with chase_counter > 0 and last_ytop < 0.2
\* returns forward-back = -45 and vertical = -15, whatever box_width,
\* last_xmid and the speeds are.
C25_RetreatWhenTopIsLow ==
    [][(call'.op = "update" /\ autopilot.state = "CHASE"
          /\ autopilot.chase_counter > 0
          /\ RLt(autopilot.last_ytop, Rat(2, 10)))
          => auto'[3] = FromInt(-45) /\ auto'[2] = FromInt(-15)]_vars

\* The retreat, where the formulas would have given other deltas: the box
\* is wider than the frame and off the centre, and the speeds are not the
\* defaults.
C25_Witness ==
    /\ call.op = "update" /\ autopilot.state = "CHASE"
    /\ autopilot.chase_counter > 0
    /\ RLt(autopilot.last_ytop, Rat(2, 10))
    /\ RLt(FromInt(1), autopilot.box_width) /\ autopilot.last_xmid # Half
    /\ autopilot.speed_xy # DefaultSpeed
    /\ auto[3] = FromInt(-45) /\ auto[2] = FromInt(-15)

C27_MissChangesCounterOnly ==
    [][(call'.op = "update_detection" /\ ~call'.person)
          => /\ autopilot'.chase_counter
                   = IF autopilot.chase_counter >= 1
                     THEN autopilot.chase_counter - 1 ELSE 0
             /\ autopilot'
                   = [autopilot EXCEPT !.chase_counter = autopilot'.chase_counter]
      ]_vars

\* A call without a person box in CHASE, after a box off the centre: the
\* counter has gone down and the last position is still there.
C27_Witness ==
    /\ call.op = "update_detection" /\ ~call.person
    /\ autopilot.state = "CHASE" /\ autopilot.chase_counter = 5
    /\ autopilot.last_xmid # Half /\ autopilot.box_width # Zero

\* C28: on every tick made in TRACK the autopilot's forward-back delta is
\* 0, whatever was detected and whatever box_width and chase_counter are,
\* and the forward-back value sent is that of the manual input alone.
C28_TrackNoForwardBack ==
    (autopilot.state = "TRACK" /\ pc.main \in {"act", "rc_call"})
        => /\ auto[3] = Zero
           /\ rc # None => rc[2] = Sent(ManualFb(autopilot, keys[2]), Zero)

\* A command sent in TRACK on a tick that saw a person box wider than the
\* frame: forward-back is the manual forward delta.
C28_Witness ==
    /\ autopilot.state = "TRACK" /\ rc # None /\ person_box # None
    /\ RLt(FromInt(1), autopilot.box_width)
    /\ autopilot.chase_counter = ChaseLookahead
    /\ auto[1] # Zero /\ auto[2] # Zero
    /\ keys[2] = 1 /\ autopilot.speed_xy = 30 /\ rc[2] = 30

\* C30: at the end of every control tick, after update_detection and
\* update, an autopilot in CHASE has chase_counter > 0.
C30_ChaseHasCounter ==
    [][(pc.main = "snap" /\ pc'.main = "act" /\ autopilot'.state = "CHASE")
          => autopilot'.chase_counter > 0]_vars

\* The tick on which the counter has come down to 1 in CHASE: the last one
\* before the return to SEARCH.
C30_Witness ==
    /\ pc.main = "act" /\ autopilot.state = "CHASE" /\ autopilot.mode = 2
    /\ autopilot.chase_counter = 1 /\ person_box = None

\* C29: in the loop of WebApplication/main.py, started with its default
\* speeds, each of the four values passed to send_rc_control lies in
\* [-100, 100].
C29_WebCommandInRange ==
    pc.main = "web_rc_call"
        => \A axis \in 1..4 : RcMin <= rc[axis] /\ rc[axis] <= RcMax

\* C31: loss of the subject is acted on: when the detection worker has
\* published nothing for more ticks than a published person box and the
\* countdown that follows it can account for (its thread has ended), the
\* autopilot is no longer in CHASE.
C31_LossActedOn ==
    (Ended("det") /\ call.misses > ChaseLookahead + 1) => autopilot.state # "CHASE"

\* C32: once the finally block has released the vehicle session
\* (frame_reader.stop(), streamoff() and end() have been called), the frame
\* producer reads no frame (frame_reader.frame) and no telemetry
\* (get_battery(), get_height() on its overlay) any more.
C32_NoVehicleCallAfterRelease ==
    [][ {"fr_stop", "streamoff", "end"} \subseteq attempted
            => ~ (pc.cam \in {"read", "overlay"} /\ pc'.cam # pc.cam) ]_vars

\* C33: the frame in the frame cell, and the frame the detection worker hands
\* to the detector, is a raw source frame: no overlay is drawn on it.
C33_PublishedFramesRaw ==
    /\ shared_frame # None => IsRaw(shared_frame)
    /\ pc.det = "infer" => IsRaw(det.frame)

\* C34: takeoff() is invoked at most once in a run of the control loop,
\* whatever keys are pressed and takeoff requests posted, and a command of
\* the tick body is transmitted only after that takeoff.
C34_SingleTakeoff ==
    /\ takeoffs <= 1
    /\ (pc.main = "rc_call" \/ tick_sent) => (takeoffs = 1 /\ flying)

\* a takeoff request is posted in flight and the tick transmits its command
C34_Witness ==
    /\ pc.main = "rc_call" /\ rc # None
    /\ takeoff_event /\ takeoffs = 1

Threads == {"main", "det", "cam", "gen"}

\* The locks thread t holds.
Held(t) ==
    {l \in {"frame_lock", "detection_lock", "stream_frame_lock"} :
        t = (CASE l = "frame_lock" -> frame_lock
               [] l = "detection_lock" -> detection_lock
               [] OTHER -> stream_frame_lock)}

\* Thread t stands before a with statement: its next step acquires a lock,
\* and waits while another thread holds it.
AtWith(t) ==
    /\ t # "gen"
    /\ pc[t] \in {"wait_lock", "snap_lock", "lock", "pub_lock", "det_lock",
                  "stream_lock"}

\* C35: no thread holds two of frame_lock, detection_lock and
\* stream_frame_lock at once; a thread that holds a lock is not waiting for
\* one, so no thread waits for a lock whose holder waits too.
C35_OneLockAtATime ==
    \A t \in Threads :
        /\ Cardinality(Held(t)) <= 1
        /\ Held(t) # {} => ~AtWith(t)

\* all three locks are held, by three threads, while the fourth waits
C35_Witness ==
    /\ frame_lock = "main" /\ detection_lock = "det" /\ stream_frame_lock = "gen"
    /\ pc.cam = "lock"


====
